---- MODULE Spec2Model ----
(***************************************************************************)
(* A model of rustmandelbrot (src/src/main.rs): argument parsing, the      *)
(* per-pixel render loop, the escape-time loop, the colouring and main.    *)
(*                                                                         *)
(* f64 values are modelled on a binary fixed-point grid with FracBits      *)
(* fractional bits: a finite value v is the integer v * Scale, arithmetic  *)
(* rounds to the nearest grid point (ties to even) and overflows to an     *)
(* infinity, and NaN and the two infinities are values of their own. The   *)
(* arithmetic is written as functions (FAddAt, ...) so that an operand is  *)
(* evaluated once, as the machine does.                                    *)
(***************************************************************************)
EXTENDS Integers, Sequences, FiniteSets, TLC

VARIABLES
    pc,         \* where main / mandelbrot / pixel_distance stands
    argv,       \* env::args(), program name first
    args,       \* the iterator Config::parse consumes
    config,     \* the locals of Config::parse, then the Config
    parse_err,  \* the Err of Config::parse ("" while there is none)
    row, col,   \* the loop counters y and x of mandelbrot
    px, py,     \* the plane point (the shadowed x and y of mandelbrot)
    data,       \* the Vec<u8> being filled
    i, z_r, z_i,\* the locals of pixel_distance
    result,     \* what pixel_distance returned: <<inside, distance>>
    image,      \* the Image mandelbrot returned (<<>> before)
    stderr,     \* the messages written with eprintln!
    exit_code,  \* the process exit status (-1 while running)
    save_result,\* image::save_buffer: "none" before the call, then "ok" or "err"
    run,        \* which call of mandelbrot this is
    first,      \* the Image of the first call (<<>> before)
    visited,    \* history: the <<row, col>> of every pixel appended
    nsteps,     \* history: loop bodies of pixel_distance run for this pixel
    lc0, lc1, lamount, lout   \* a call of lerp on its own: arguments, result

vars == <<pc, argv, args, config, parse_err, row, col, px, py, data, i, z_r,
          z_i, result, image, stderr, exit_code, save_result, run, first, visited,
          nsteps, lc0, lc1, lamount, lout>>

----------------------------------------------------------------------------
(* Bounds of the model. *)

FracBits == 4
MaxDim == 2
MaxIter == 3
MaxTail == 2
Runs == 2
ChanSpread == 0

----------------------------------------------------------------------------
(* f64 *)

Scale == 2 ^ FracBits

\* The largest finite magnitude of the grid (f64::MAX), in grid units.
MaxFinite == 2 ^ 15
Inf == 2 ^ 20
NegInf == 0 - Inf
NaN == 2 ^ 21

IsNaN(a) == a = NaN
IsFinite(a) == a > NegInf /\ a < Inf

\* The values of an f64, as integers.
F64 == (0 - MaxFinite .. MaxFinite) \cup {Inf, NegInf, NaN}

\* Rounding an exact result to the grid: overflow gives an infinity.
Clamp(v) == IF v > MaxFinite THEN Inf ELSE IF v < 0 - MaxFinite THEN NegInf ELSE v

\* n / d for d > 0, rounded to the nearest integer, ties to even.
RoundDiv(n, d) ==
    LET q == n \div d
        r == n - q * d
    IN  IF 2 * r < d THEN q
        ELSE IF 2 * r > d THEN q + 1
        ELSE IF q % 2 = 0 THEN q ELSE q + 1

Sign(a) == IF a > 0 THEN 1 ELSE IF a < 0 THEN 0 - 1 ELSE 0

FromInt(n) == Clamp(n * Scale)

FNeg(a) == IF IsNaN(a) THEN NaN ELSE 0 - a

FAbs(a) == IF IsNaN(a) THEN NaN ELSE IF a < 0 THEN 0 - a ELSE a

FAddAt[p \in Int \X Int] ==
    LET a == p[1]
        b == p[2]
    IN
        IF IsNaN(a) \/ IsNaN(b) THEN NaN
        ELSE IF ~IsFinite(a) THEN (IF ~IsFinite(b) /\ b # a THEN NaN ELSE a)
        ELSE IF ~IsFinite(b) THEN b
        ELSE Clamp(a + b)
FAdd(a, b) == FAddAt[<<a, b>>]

FSub(a, b) == FAdd(a, FNeg(b))

FMulAt[p \in Int \X Int] ==
    LET a == p[1]
        b == p[2]
    IN
        IF IsNaN(a) \/ IsNaN(b) THEN NaN
        ELSE IF ~IsFinite(a) \/ ~IsFinite(b)
             THEN (IF a = 0 \/ b = 0 THEN NaN
                   ELSE IF Sign(a) = Sign(b) THEN Inf ELSE NegInf)
        ELSE Clamp(RoundDiv(a * b, Scale))
FMul(a, b) == FMulAt[<<a, b>>]

FDivAt[p \in Int \X Int] ==
    LET a == p[1]
        b == p[2]
    IN
        IF IsNaN(a) \/ IsNaN(b) THEN NaN
        ELSE IF ~IsFinite(a)
             THEN (IF ~IsFinite(b) THEN NaN
                   ELSE IF (a > 0) = (b >= 0) THEN Inf ELSE NegInf)
        ELSE IF ~IsFinite(b) THEN 0
        ELSE IF b = 0
             THEN (IF a = 0 THEN NaN ELSE IF a > 0 THEN Inf ELSE NegInf)
        ELSE IF b > 0 THEN Clamp(RoundDiv(a * Scale, b))
        ELSE Clamp(RoundDiv((0 - a) * Scale, 0 - b))
FDiv(a, b) == FDivAt[<<a, b>>]

\* a > b of f64: false when either side is NaN.
FGt(a, b) == ~IsNaN(a) /\ ~IsNaN(b) /\ a > b

\* pi on the grid.
PiFx == RoundDiv(355 * Scale, 113)

\* sin on [0, pi] (Bhaskara's rational form): 0 at 0 and pi, 1 at pi/2,
\* never above 1.
SinHalf(t) ==
    LET p == t * (PiFx - t)
    IN  RoundDiv(16 * p * Scale, 5 * PiFx * PiFx - 4 * p)

\* f64::sin: NaN for NaN and the infinities, else within [-1, 1].
FSinAt[a \in Int] ==
    IF ~IsFinite(a) THEN NaN
    ELSE LET t == a % (2 * PiFx)
         IN  IF t <= PiFx THEN SinHalf(t) ELSE 0 - SinHalf(t - PiFx)
FSin(a) == FSinAt[a]

\* `as i16` of an f64: truncates toward zero, saturates, NaN gives 0.
I16Max == 32767
I16Min == 0 - 32768
ToI16At[a \in Int] ==
    IF IsNaN(a) THEN 0
    ELSE LET t == IF a >= 0 THEN a \div Scale ELSE 0 - ((0 - a) \div Scale)
         IN  IF t > I16Max THEN I16Max ELSE IF t < I16Min THEN I16Min ELSE t
ToI16(a) == ToI16At[a]

----------------------------------------------------------------------------
(* lerp *)

U8Max == 255

\* The i16 blend term of one channel: ((c1 - c0) as f64 * amount) as i16.
LerpTerm(a, b, amount) == ToI16(FMul(FromInt(b - a), amount))

\* The i16 sum of one channel overflows (a panic in a debug build).
LerpOverflows(a, b, amount) ==
    LET s == a + LerpTerm(a, b, amount) IN s > I16Max \/ s < I16Min

\* One channel of lerp: the i16 sum (wrapped, as a release build does),
\* then `as u8`, which keeps the low 8 bits.
v_lerp_swapped(a, b, amount) == (b + LerpTerm(b, a, amount)) % (U8Max + 1)

v_lerp(a, b, amount) == (a + LerpTerm(a, b, amount)) % (U8Max + 1)

lerp(c0, c1, amount) ==
    <<v_lerp(c0[1], c1[1], amount),
      v_lerp(c0[2], c1[2], amount),
      v_lerp(c0[3], c1[3], amount)>>

----------------------------------------------------------------------------
(* pixel_distance *)

\* let (mut z_r, mut z_i) = (0.0, 0.0), a fresh pair on every call.
ZStartCarried == <<z_r, z_i>>

ZStart == <<0, 0>>

\* The closure distance: v0*v0 + v1*v1.
distance(v0, v1) == FAdd(FMul(v0, v0), FMul(v1, v1))

\* One update of the loop body: temp_z from the old z_r and z_i, z_i from
\* the old z_r and z_i, then z_r = temp_z.
NextZStale(zr, zi, x, y) ==
    LET temp_z == FSub(FAdd(FMul(zr, zr), x), FMul(zi, zi))
    IN  <<temp_z, FAdd(FMul(FMul(FromInt(2), temp_z), zi), y)>>

NextZ(zr, zi, x, y) ==
    LET temp_z == FSub(FAdd(FMul(zr, zr), x), FMul(zi, zi))
        new_zi == FAdd(FMul(FMul(FromInt(2), zr), zi), y)
    IN  <<temp_z, new_zi>>

\* if distance(z_r, z_i) > 4.0
Escaped(zr, zi) == FGt(distance(zr, zi), FromInt(4))

\* (i as f64)/(iterations as f64)
EscapeFraction(k, iterations) == FDiv(FromInt(k), FromInt(iterations))

\* The loop of pixel_distance from counter k and point (zr, zi).
RECURSIVE pixel_distance_from(_, _, _, _, _, _)
pixel_distance_from(iterations, x, y, k, zr, zi) ==
    IF k >= iterations THEN <<TRUE, distance(zr, zi)>>
    ELSE LET z == NextZ(zr, zi, x, y)
         IN  IF Escaped(z[1], z[2])
             THEN <<FALSE, EscapeFraction(k, iterations)>>
             ELSE pixel_distance_from(iterations, x, y, k + 1, z[1], z[2])

pixel_distance(iterations, x, y) ==
    pixel_distance_from(iterations, x, y, 0, 0, 0)

----------------------------------------------------------------------------
(* mandel_pixel *)

\* The block computing `fraction`: sin, the check against 1.0, then abs.
FractionNoAbs(dist, mult) ==
    LET current == FSin(FMul(dist, mult))
    IN  IF FGt(current, FromInt(1)) THEN FromInt(1) ELSE current

Fraction(dist, mult) ==
    LET current == FSin(FMul(dist, mult))
    IN  IF FGt(current, FromInt(1)) THEN FromInt(1) ELSE FAbs(current)

\* mandel_pixel after its call of pixel_distance.
mandel_colour_swapped(cfg, inside, dist) ==
    LET inside_color ==
            lerp(cfg.inside_color, cfg.second_color, Fraction(dist, cfg.mult))
    IN  IF inside THEN lerp(cfg.outside_color, inside_color, dist)
        ELSE inside_color

mandel_colour(cfg, inside, dist) ==
    LET inside_color ==
            lerp(cfg.inside_color, cfg.second_color, Fraction(dist, cfg.mult))
    IN  IF inside THEN inside_color
        ELSE lerp(cfg.outside_color, inside_color, dist)

mandel_pixel(cfg, x, y) ==
    LET r == pixel_distance(cfg.iterations, x, y)
    IN  mandel_colour(cfg, r[1], r[2])

\* Some channel sum of a lerp call overflows i16.
LerpPanics(c0, c1, amount) ==
    \E n \in 1..3 : LerpOverflows(c0[n], c1[n], amount)

\* Some lerp call of mandel_pixel overflows.
ColourPanics(cfg, inside, dist) ==
    LET f == Fraction(dist, cfg.mult)
        inside_color == lerp(cfg.inside_color, cfg.second_color, f)
    IN  \/ LerpPanics(cfg.inside_color, cfg.second_color, f)
        \/ ~inside /\ LerpPanics(cfg.outside_color, inside_color, dist)

----------------------------------------------------------------------------
(* mandelbrot *)

\* The plane coordinates of column x and of row y.
MapXByHeight(cfg, x) ==
    FAdd(FSub(cfg.x, FDiv(cfg.zoom, FromInt(2))),
         FMul(cfg.zoom, FDiv(FromInt(x), FromInt(cfg.height))))

MapX(cfg, x) ==
    FAdd(FSub(cfg.x, FDiv(cfg.zoom, FromInt(2))),
         FMul(cfg.zoom, FDiv(FromInt(x), FromInt(cfg.width))))

MapY(cfg, y) ==
    FAdd(FSub(cfg.y, FDiv(cfg.zoom, FromInt(2))),
         FMul(cfg.zoom, FDiv(FromInt(y), FromInt(cfg.height))))

----------------------------------------------------------------------------
(* Strings are sequences of characters; Option<String> is a sequence of   *)
(* at most one string; a Result is a record with ok, v and err.           *)

Ok(v) == [ok |-> TRUE, v |-> v, err |-> ""]
Err(e) == [ok |-> FALSE, v |-> 0, err |-> e]

Digits == <<"0", "1", "2", "3", "4", "5", "6", "7", "8", "9">>
IsDigit(c) == \E k \in 1..10 : Digits[k] = c
DigitVal(c) == (CHOOSE k \in 1..10 : Digits[k] = c) - 1
AllDigits(s) == \A k \in 1..Len(s) : IsDigit(s[k])

RECURSIVE DecVal(_)
DecVal(s) ==
    IF s = <<>> THEN 0
    ELSE DecVal(SubSeq(s, 1, Len(s) - 1)) * 10 + DigitVal(s[Len(s)])

\* str::trim
RECURSIVE TrimStart(_)
TrimStart(s) == IF s # <<>> /\ s[1] = " " THEN TrimStart(Tail(s)) ELSE s
RECURSIVE TrimEnd(_)
TrimEnd(s) ==
    IF s # <<>> /\ s[Len(s)] = " " THEN TrimEnd(SubSeq(s, 1, Len(s) - 1)) ELSE s
Trim(s) == TrimEnd(TrimStart(s))

\* str::split(','): the pieces between the commas, at least one.
RECURSIVE SplitComma(_)
SplitComma(s) ==
    IF \E k \in 1..Len(s) : s[k] = ","
    THEN LET k == CHOOSE k \in 1..Len(s) :
                      s[k] = "," /\ \A j \in 1..(k - 1) : s[j] # ","
         IN  <<SubSeq(s, 1, k - 1)>> \o SplitComma(SubSeq(s, k + 1, Len(s)))
    ELSE <<s>>

\* FromStr of u8, u32 and u128: an optional "+", then digits only; the
\* value must fit (the tokens of the model are too short to overflow u32
\* or u128, so only u8 states its limit).
ParseUnsigned(s, limit) ==
    LET body == IF s # <<>> /\ s[1] = "+" THEN Tail(s) ELSE s
    IN  IF body = <<>> THEN Err("cannot parse integer from empty string")
        ELSE IF ~AllDigits(body) THEN Err("invalid digit found in string")
        ELSE IF limit >= 0 /\ DecVal(body) > limit
             THEN Err("number too large to fit in target type")
        ELSE Ok(DecVal(body))

NoLimit == 0 - 1

\* FromStr of f64: an optional sign, then nan, inf, or decimal digits with
\* at most one point and at least one digit; correctly rounded.
ParseF64(s) ==
    LET neg == s # <<>> /\ s[1] = "-"
        body == IF s # <<>> /\ s[1] \in {"-", "+"} THEN Tail(s) ELSE s
        parts == IF \E k \in 1..Len(body) : body[k] = "."
                 THEN LET k == CHOOSE k \in 1..Len(body) : body[k] = "."
                      IN  <<SubSeq(body, 1, k - 1),
                            SubSeq(body, k + 1, Len(body))>>
                 ELSE <<body, <<>>>>
        mag == Clamp(DecVal(parts[1]) * Scale
                     + RoundDiv(DecVal(parts[2]) * Scale, 10 ^ Len(parts[2])))
    IN  IF body = <<"n", "a", "n">> THEN Ok(NaN)
        ELSE IF body = <<"i", "n", "f">> THEN Ok(IF neg THEN NegInf ELSE Inf)
        ELSE IF /\ AllDigits(parts[1]) /\ AllDigits(parts[2])
                /\ Len(parts[1]) + Len(parts[2]) > 0
             THEN Ok(IF neg THEN 0 - mag ELSE mag)
        ELSE Err("invalid float literal")

\* parse_arg::<f64> and parse_arg::<u32 / u128>
parse_arg_f64(arg) ==
    IF arg = <<>> THEN Err("no argument supplied") ELSE ParseF64(Trim(arg[1]))

parse_arg_uint(arg) ==
    IF arg = <<>> THEN Err("no argument supplied")
    ELSE ParseUnsigned(Trim(arg[1]), NoLimit)

\* The loop of parse_color over the pieces still to read.
RECURSIVE parse_color_from(_, _, _)
parse_color_from(pieces, index, out) ==
    IF pieces = <<>> THEN Ok(out)
    ELSE IF index >= Len(out) THEN Err("not enough color values")
    ELSE LET r == ParseUnsigned(Trim(pieces[1]), U8Max)
         IN  IF ~r.ok THEN Err("cant parse")
             ELSE parse_color_from(Tail(pieces), index + 1,
                                   [out EXCEPT ![index + 1] = r.v])

parse_color(arg) ==
    IF arg = <<>> THEN Err("no argument supplied")
    ELSE parse_color_from(SplitComma(arg[1]), 0, <<0, 0, 0>>)

----------------------------------------------------------------------------
(* Config::parse *)

DefaultIterations == 100
DefaultWidth == 1024
DefaultHeight == 1024
DefaultFilename == <<"o", "u", "t", "p", "u", "t", ".", "p", "n", "g">>

\* The locals of Config::parse as initialised.
Defaults ==
    [x |-> 0 - ((3 * Scale) \div 4), y |-> 0, zoom |-> FromInt(3),
     iterations |-> DefaultIterations,
     width |-> DefaultWidth, height |-> DefaultHeight, mult |-> FromInt(25),
     outside_color |-> <<0, 0, 0>>, inside_color |-> <<255, 0, 0>>,
     second_color |-> <<255, 0, 255>>, filename |-> DefaultFilename]

FlagX == <<"-", "x">>
FlagY == <<"-", "y">>
FlagZ == <<"-", "z">>
FlagI == <<"-", "i">>
FlagW == <<"-", "W">>
FlagH == <<"-", "H">>
FlagM == <<"-", "m">>
FlagO == <<"-", "o">>
FlagOutside == <<"-", "-", "o", "u", "t", "s", "i", "d", "e">>
FlagInside == <<"-", "-", "i", "n", "s", "i", "d", "e">>
FlagSecond == <<"-", "-", "s", "e", "c", "o", "n", "d">>

FloatFlags == {FlagX, FlagY, FlagZ, FlagM}
UintFlags == {FlagI, FlagW, FlagH}
ColorFlags == {FlagOutside, FlagInside, FlagSecond}

\* The field a flag sets.
FieldOf(flag) ==
    CASE flag = FlagX -> "x" [] flag = FlagY -> "y" [] flag = FlagZ -> "zoom"
      [] flag = FlagI -> "iterations" [] flag = FlagW -> "width"
      [] flag = FlagH -> "height" [] flag = FlagM -> "mult"
      [] flag = FlagOutside -> "outside_color"
      [] flag = FlagInside -> "inside_color"
      [] flag = FlagSecond -> "second_color"
      [] flag = FlagO -> "filename"

\* One arm of the match: the locals after `arg` with the Option `val` that
\* args.next() gave, or the Err that `?` / return returns.
MatchArm(cfg, arg, val) ==
    LET r == IF arg \in FloatFlags THEN parse_arg_f64(val)
             ELSE IF arg \in UintFlags THEN parse_arg_uint(val)
             ELSE IF arg \in ColorFlags THEN parse_color(val)
             ELSE IF arg = FlagO
                  THEN (IF val = <<>> THEN Err("no filename") ELSE Ok(val[1]))
             ELSE Err("unrecongnized argument")
    IN  IF r.ok THEN Ok([cfg EXCEPT ![FieldOf(arg)] = r.v]) ELSE r

\* let mut args = args.skip(1), after the locals are initialised.
ParseBegin ==
    /\ pc = "start"
    /\ args' = IF argv = <<>> THEN <<>> ELSE Tail(argv)
    /\ config' = Defaults
    /\ pc' = "parse"
    /\ UNCHANGED <<argv, parse_err, row, col, px, py, data, i, z_r, z_i,
                   result, image, stderr, exit_code, save_result, run, first,
                   visited, nsteps, lc0, lc1, lamount, lout>>

\* One turn of `while let Some(arg) = args.next()`: every arm but the last
\* takes one more item from the iterator.
ParseArg ==
    /\ pc = "parse"
    /\ args # <<>>
    /\ LET arg == Head(args)
           known == arg \in FloatFlags \cup UintFlags \cup ColorFlags \cup {FlagO}
           rest == Tail(args)
           val == IF known /\ rest # <<>> THEN <<Head(rest)>> ELSE <<>>
           r == MatchArm(config, arg, val)
       IN  /\ args' = IF known /\ rest # <<>> THEN Tail(rest) ELSE rest
           /\ IF r.ok
              THEN config' = r.v /\ UNCHANGED <<pc, parse_err>>
              ELSE /\ parse_err' = r.err
                   /\ pc' = "parse_failed"
                   /\ UNCHANGED config
    /\ UNCHANGED <<argv, row, col, px, py, data, i, z_r, z_i, result, image,
                   stderr, exit_code, save_result, run, first, visited, nsteps,
                   lc0, lc1, lamount, lout>>

\* The iterator is exhausted: Ok(Config{..}), and main goes on to line 103.
ParseEnd ==
    /\ pc = "parse"
    /\ args = <<>>
    /\ pc' = "call"
    /\ UNCHANGED <<argv, args, config, parse_err, row, col, px, py, data, i,
                   z_r, z_i, result, image, stderr, exit_code, save_result, run,
                   first, visited, nsteps, lc0, lc1, lamount, lout>>

----------------------------------------------------------------------------
(* main and help_message *)

PanicStatus == 101

\* main returns normally.
SuccessStatus == 0

\* process::exit(1) of help_message.
HelpStatus == 1

\* process::exit(1) of the closure on a failed save.
SaveFailureFallsThrough == SuccessStatus

SaveFailureStatus == 1

\* The closure of unwrap_or_else on the Err of Config::parse.
ParseFailed ==
    /\ pc = "parse_failed"
    /\ stderr' = Append(stderr, "cant parse args")
    /\ pc' = "help"
    /\ UNCHANGED <<argv, args, config, parse_err, row, col, px, py, data, i,
                   z_r, z_i, result, image, exit_code, save_result, run, first,
                   visited, nsteps, lc0, lc1, lamount, lout>>

\* help_message: the usage text, then process::exit(1); the expect panics
\* when the process has no argument at all.
HelpMessage ==
    /\ pc = "help"
    /\ IF argv = <<>>
       THEN stderr' = Append(stderr, "panic") /\ exit_code' = PanicStatus
       ELSE stderr' = Append(stderr, "usage") /\ exit_code' = HelpStatus
    /\ pc' = "exit"
    /\ UNCHANGED <<argv, args, config, parse_err, row, col, px, py, data, i,
                   z_r, z_i, result, image, save_result, run, first, visited,
                   nsteps, lc0, lc1, lamount, lout>>

\* image::save_buffer returns Ok and main returns.
SaveOk ==
    /\ pc = "returned"
    /\ save_result' = "ok"
    /\ exit_code' = SuccessStatus
    /\ pc' = "exit"
    /\ UNCHANGED <<argv, args, config, parse_err, row, col, px, py, data, i,
                   z_r, z_i, result, image, stderr, run, first, visited,
                   nsteps, lc0, lc1, lamount, lout>>

\* image::save_buffer returns Err: the closure prints and exits with 1.
SaveErr ==
    /\ pc = "returned"
    /\ save_result' = "err"
    /\ stderr' = Append(stderr, "could not save image")
    /\ exit_code' = SaveFailureStatus
    /\ pc' = "exit"
    /\ UNCHANGED <<argv, args, config, parse_err, row, col, px, py, data, i,
                   z_r, z_i, result, image, run, first, visited, nsteps,
                   lc0, lc1, lamount, lout>>

----------------------------------------------------------------------------
(* mandelbrot, with the loop of pixel_distance taken step by step *)

\* The step of a `for` over a range: the next index.
NextIndexStuck(k) == k

NextIndex(k) == k + 1

\* Image{data, width: config.width, height: config.height}
MakeImageSwapped(d, cfg) ==
    [data |-> d, width |-> cfg.height, height |-> cfg.width]

MakeImage(d, cfg) == [data |-> d, width |-> cfg.width, height |-> cfg.height]

\* let mut data = Vec::new(), and the row loop starts.
MandelbrotEnter ==
    /\ pc = "call"
    /\ data' = <<>>
    /\ row' = 0
    /\ visited' = <<>>
    /\ pc' = "rows"
    /\ UNCHANGED <<argv, args, config, parse_err, col, px, py, i, z_r, z_i,
                   result, image, stderr, exit_code, save_result, run, first,
                   nsteps, lc0, lc1, lamount, lout>>

\* for y in 0..config.height
RowLoop ==
    /\ pc = "rows"
    /\ IF row < config.height
       THEN col' = 0 /\ pc' = "cols"
       ELSE pc' = "return" /\ UNCHANGED col
    /\ UNCHANGED <<argv, args, config, parse_err, row, px, py, data, i, z_r,
                   z_i, result, image, stderr, exit_code, save_result, run, first,
                   visited, nsteps, lc0, lc1, lamount, lout>>

\* for x in 0..config.width: the plane point, then mandel_pixel calls
\* pixel_distance; at the end of the row the next row.
ColLoop ==
    /\ pc = "cols"
    /\ IF col < config.width
       THEN /\ px' = MapX(config, col)
            /\ py' = MapY(config, row)
            /\ z_r' = ZStart[1]
            /\ z_i' = ZStart[2]
            /\ i' = 0
            /\ nsteps' = 0
            /\ pc' = "iter"
            /\ UNCHANGED row
       ELSE /\ row' = NextIndex(row)
            /\ pc' = "rows"
            /\ UNCHANGED <<px, py, z_r, z_i, i, nsteps>>
    /\ UNCHANGED <<argv, args, config, parse_err, col, data, result, image,
                   stderr, exit_code, save_result, run, first, visited, lc0, lc1,
                   lamount, lout>>

\* One body of `for i in 0..iterations`: the update, then the escape test.
IterStep ==
    /\ pc = "iter"
    /\ i < config.iterations
    /\ LET z == NextZ(z_r, z_i, px, py)
       IN  /\ z_r' = z[1]
           /\ z_i' = z[2]
           /\ nsteps' = nsteps + 1
           /\ IF Escaped(z[1], z[2])
              THEN /\ result' = <<FALSE, EscapeFraction(i, config.iterations)>>
                   /\ pc' = "colour"
                   /\ UNCHANGED i
              ELSE /\ i' = NextIndex(i)
                   /\ UNCHANGED <<result, pc>>
    /\ UNCHANGED <<argv, args, config, parse_err, row, col, px, py, data,
                   image, stderr, exit_code, save_result, run, first, visited,
                   lc0, lc1, lamount, lout>>

\* The loop ran out: (true, distance(z_r, z_i)).
IterEnd ==
    /\ pc = "iter"
    /\ i >= config.iterations
    /\ result' = <<TRUE, distance(z_r, z_i)>>
    /\ pc' = "colour"
    /\ UNCHANGED <<argv, args, config, parse_err, row, col, px, py, data, i,
                   z_r, z_i, image, stderr, exit_code, save_result, run, first,
                   visited, nsteps, lc0, lc1, lamount, lout>>

\* The rest of mandel_pixel, and data.extend(..) with its three bytes. An
\* i16 overflow in lerp panics in a debug build and wraps in a release one.
Colour ==
    /\ pc = "colour"
    /\ data' = data \o mandel_colour(config, result[1], result[2])
    /\ visited' = Append(visited, <<row, col>>)
    /\ col' = NextIndex(col)
    /\ IF ColourPanics(config, result[1], result[2])
       THEN pc' \in {"panic", "cols"}
       ELSE pc' = "cols"
    /\ UNCHANGED <<argv, args, config, parse_err, row, px, py, i, z_r, z_i,
                   result, image, stderr, exit_code, save_result, run, first,
                   nsteps, lc0, lc1, lamount, lout>>

\* mandelbrot returns its Image.
Return ==
    /\ pc = "return"
    /\ image' = MakeImage(data, config)
    /\ first' = IF run = 1 THEN image' ELSE first
    /\ pc' = "returned"
    /\ UNCHANGED <<argv, args, config, parse_err, row, col, px, py, data, i,
                   z_r, z_i, result, stderr, exit_code, save_result, run, visited,
                   nsteps, lc0, lc1, lamount, lout>>

\* mandelbrot is called again on the same Config.
Rerun ==
    /\ pc = "returned"
    /\ run < Runs
    /\ run' = run + 1
    /\ pc' = "call"
    /\ UNCHANGED <<argv, args, config, parse_err, row, col, px, py, data, i,
                   z_r, z_i, result, image, stderr, exit_code, save_result, first,
                   visited, nsteps, lc0, lc1, lamount, lout>>

\* A call of lerp on its own.
CallLerp ==
    /\ pc = "lerp"
    /\ lout' = lerp(lc0, lc1, lamount)
    /\ pc' = IF LerpPanics(lc0, lc1, lamount) THEN "lerp_overflow"
             ELSE "lerp_done"
    /\ UNCHANGED <<argv, args, config, parse_err, row, col, px, py, data, i,
                   z_r, z_i, result, image, stderr, exit_code, save_result, run,
                   first, visited, nsteps, lc0, lc1, lamount>>

----------------------------------------------------------------------------
(* The inputs of the model and its specifications *)

Prog == <<"m">>

\* One character strings of the argument values tried.
ValueTokens ==
    {<<"1">>, <<" ", "2">>, <<"0">>, <<"x">>, <<"-", "1">>, <<".", "5">>,
     <<"n", "a", "n">>, <<>>,
     <<"1", ",", "2", ",", "3">>, <<"1", ",", "2">>,
     <<"1", ",", "2", ",", "3", ",", "4">>, <<"1", ",", "x", ",", "3">>,
     <<"2", "5", "6", ",", "0", ",", "0">>}

Tokens ==
    FloatFlags \cup UintFlags \cup ColorFlags \cup {FlagO, <<"-", "q">>}
    \cup ValueTokens

\* Every sequence of at most n tokens.
RECURSIVE SeqsUpTo(_)
SeqsUpTo(n) ==
    IF n = 0 THEN {<<>>}
    ELSE LET shorter == SeqsUpTo(n - 1)
         IN  shorter \cup {Append(t, k) : t \in shorter, k \in Tokens}

\* Argument lists: a small image is asked for first, then anything.
ArgLists ==
    {<<Prog, FlagW, w, FlagH, <<"1">>, FlagI, <<"2">>>> \o t :
        w \in {<<"1">>, <<" ", "2">>}, t \in SeqsUpTo(MaxTail)}

Idle ==
    /\ row = 0 /\ col = 0 /\ px = 0 /\ py = 0 /\ data = <<>>
    /\ i = 0 /\ z_r = 0 /\ z_i = 0 /\ result = <<TRUE, 0>>
    /\ image = <<>> /\ stderr = <<>> /\ exit_code = 0 - 1 /\ save_result = "none"
    /\ run = 1 /\ first = <<>> /\ visited = <<>> /\ nsteps = 0
    /\ parse_err = ""

NoLerp == lc0 = <<0, 0, 0>> /\ lc1 = <<0, 0, 0>> /\ lamount = 0 /\ lout = <<>>

\* The process as started.
Init ==
    /\ pc = "start"
    /\ argv \in ArgLists
    /\ args = <<>>
    /\ config = Defaults
    /\ Idle
    /\ NoLerp

Next ==
    \/ ParseBegin \/ ParseArg \/ ParseEnd \/ ParseFailed \/ HelpMessage
    \/ MandelbrotEnter \/ RowLoop \/ ColLoop \/ IterStep \/ IterEnd
    \/ Colour \/ Return \/ SaveOk \/ SaveErr

Spec == Init /\ [][Next]_vars

\* Colours tried.
Palettes ==
    {<<<<0, 0, 0>>, <<255, 0, 0>>, <<255, 0, 255>>>>,
     <<<<10, 200, 30>>, <<0, 128, 255>>, <<255, 77, 0>>>>}

Half == Scale \div 2

\* Configs a successful Config::parse can return.
Configs ==
    {[x |-> cx, y |-> cy, zoom |-> z, iterations |-> n, width |-> w,
      height |-> h, mult |-> m, outside_color |-> p[1],
      inside_color |-> p[2], second_color |-> p[3],
      filename |-> DefaultFilename] :
        cx \in {Defaults.x, Half, FromInt(3)},
        cy \in {Half, FromInt(3)},
        z \in {FromInt(1), FromInt(2), Inf},
        n \in 0..MaxIter, w \in 0..MaxDim, h \in 0..MaxDim,
        m \in {FromInt(1), FromInt(25), NaN},
        p \in Palettes}

\* main at its call of mandelbrot, Config::parse having returned Ok.
RenderInit ==
    /\ pc = "call"
    /\ argv = <<Prog>>
    /\ args = <<>>
    /\ config \in Configs
    /\ Idle
    /\ NoLerp

RenderNext ==
    \/ MandelbrotEnter \/ RowLoop \/ ColLoop \/ IterStep \/ IterEnd
    \/ Colour \/ Return

RenderSpec == RenderInit /\ [][RenderNext]_vars

\* mandelbrot called Runs times on one Config.
RerunConfigs == {c \in Configs : c.y = Half /\ c.mult = FromInt(25)}

RerunInit == RenderInit /\ config \in RerunConfigs

RerunNext == RenderNext \/ Rerun

RerunSpec == RerunInit /\ [][RerunNext]_vars

\* The Configs the fair specification starts from.
FairConfigs ==
    {c \in Configs :
        /\ c.x = Defaults.x
        /\ c.mult = FromInt(25)
        /\ c.outside_color = <<0, 0, 0>>}

FairRenderInit == RenderInit /\ config \in FairConfigs

\* The render runs on its own thread to the end: no step of it waits for
\* anything, so a step that can be taken is taken.
FairRenderSpec ==
    FairRenderInit /\ [][RenderNext]_vars /\ WF_vars(RenderNext)

Chans == {0, U8Max} \cup ((128 - ChanSpread)..(128 + ChanSpread))
Colors == {<<r, g, b>> : r \in Chans, g \in Chans, b \in Chans}

LerpInit ==
    /\ pc = "lerp"
    /\ argv = <<Prog>>
    /\ args = <<>>
    /\ config = Defaults
    /\ Idle
    /\ lc0 \in Colors
    /\ lc1 \in Colors
    /\ lamount \in {0, Half, FromInt(1), FromInt(4), NaN, Inf}
    /\ lout = <<>>

LerpNext == CallLerp

LerpSpec == LerpInit /\ [][LerpNext]_vars

----------------------------------------------------------------------------
(* The claims *)

Rendering == pc \in {"rows", "cols", "iter", "colour", "return"}

\* C1: for width > 0 and height > 0, while mandelbrot runs the buffer holds
\* three bytes for every pixel processed so far, and the Image returned has
\* width*height*3 bytes and the config's width and height.
C1_BufferSize ==
    (config.width > 0 /\ config.height > 0) =>
        /\ Rendering => Len(data) = 3 * Len(visited)
        /\ pc \in {"cols", "iter", "colour"} =>
               Len(visited) = row * config.width + col
        /\ pc = "returned" =>
               /\ Len(image.data) = config.width * config.height * 3
               /\ image.width = config.width
               /\ image.height = config.height

C1_Witness ==
    /\ pc = "returned"
    /\ config.width = 2 /\ config.height = 1
    /\ Len(image.data) = 6

\* The plane point of column c and row r as section 4.1 states it.
PlaneX(c) ==
    FAdd(FSub(config.x, FDiv(config.zoom, FromInt(2))),
         FMul(config.zoom, FDiv(FromInt(c), FromInt(config.width))))
PlaneY(r) ==
    FAdd(FSub(config.y, FDiv(config.zoom, FromInt(2))),
         FMul(config.zoom, FDiv(FromInt(r), FromInt(config.height))))

\* C2: the three bytes at 3*(row*width+col) are mandel_pixel at the plane
\* point of (col, row), x from the column alone and y from the row alone;
\* when the loops end every pixel has its bytes.
C2_PixelLayout ==
    /\ (Rendering \/ pc = "returned") =>
         \A r \in 0..(config.height - 1) : \A c \in 0..(config.width - 1) :
            LET at == 3 * (r * config.width + c)
            IN  at + 3 <= Len(data) =>
                   SubSeq(data, at + 1, at + 3)
                       = mandel_pixel(config, PlaneX(c), PlaneY(r))
    /\ pc = "return" => Len(data) = 3 * config.width * config.height

C2_Witness ==
    /\ pc = "return"
    /\ config.width = 2 /\ config.height = 2
    /\ \E a, b \in {0, 3, 6, 9} :
           SubSeq(data, a + 1, a + 3) # SubSeq(data, b + 1, b + 3)

\* The orbit of z <- z^2 + c from 0: z after k updates.
RECURSIVE Orbit(_, _, _)
Orbit(k, x, y) ==
    IF k = 0 THEN <<0, 0>>
    ELSE LET z == Orbit(k - 1, x, y)
         IN  <<FSub(FAdd(FMul(z[1], z[1]), x), FMul(z[2], z[2])),
               FAdd(FMul(FMul(FromInt(2), z[1]), z[2]), y)>>

Mag2(z) == FAdd(FMul(z[1], z[1]), FMul(z[2], z[2]))

\* The escape-time result of section 4.2.
Reference(n, x, y) ==
    LET escapes == {k \in 0..(n - 1) : FGt(Mag2(Orbit(k + 1, x, y)), FromInt(4))}
    IN  IF escapes = {} THEN <<TRUE, Mag2(Orbit(n, x, y))>>
        ELSE LET first_k == CHOOSE k \in escapes : \A j \in escapes : k <= j
             IN  <<FALSE, FDiv(FromInt(first_k), FromInt(n))>>

\* C3: for iterations >= 1 pixel_distance returns the escape-time result:
\* (false, i/N) for the first index i whose updated |z|^2 exceeds 4, else
\* (true, |z_N|^2); (0,0) is bounded and (2,2) escapes at index 0 or 1.
C3_EscapeTime ==
    (pc = "colour" /\ config.iterations >= 1) =>
        /\ result = Reference(config.iterations, px, py)
        /\ (px = 0 /\ py = 0) => result[1]
        /\ (px = FromInt(2) /\ py = FromInt(2)) =>
               /\ ~result[1]
               /\ i \in {0, 1}
               /\ result[2] = FDiv(FromInt(i), FromInt(config.iterations))

C3_Witness ==
    /\ pc = "colour"
    /\ ~result[1]
    /\ i >= 1
    /\ z_i # 0

\* C4: lerp(c0, c1, 0) is c0 and lerp(c0, c1, 1) is c1.
C4_LerpEnds ==
    pc = "lerp_done" =>
        /\ lamount = 0 => lout = lc0
        /\ lamount = FromInt(1) => lout = lc1

C4_Witness ==
    /\ pc = "lerp_done"
    /\ lamount = FromInt(1)
    /\ lc0 = <<U8Max, 0, 128>>
    /\ lout = <<0, U8Max, 128>>

\* An argument list as the usage text describes it: after the program
\* name, flags each followed by a value of the flag's type, a colour being
\* exactly three comma-separated bytes.
RECURSIVE WellFormedArgs(_)
WellFormedArgs(a) ==
    \/ a = <<>>
    \/ /\ Len(a) >= 2
       /\ \/ a[1] \in FloatFlags /\ ParseF64(Trim(a[2])).ok
          \/ a[1] \in UintFlags /\ ParseUnsigned(Trim(a[2]), NoLimit).ok
          \/ /\ a[1] \in ColorFlags
             /\ LET pieces == SplitComma(a[2])
                IN  /\ Len(pieces) = 3
                    /\ \A k \in 1..3 : ParseUnsigned(Trim(pieces[k]), U8Max).ok
          \/ a[1] = FlagO
       /\ WellFormedArgs(SubSeq(a, 3, Len(a)))

\* C5: Config::parse returns Ok only for a well-formed argument list.
C5_RejectsMalformed ==
    pc \notin {"start", "parse"} =>
        (~WellFormedArgs(Tail(argv)) => parse_err # "")

\* The lists Config::parse accepts: as WellFormedArgs, but a colour may have
\* fewer than three channels.
RECURSIVE WellFormedOrShort(_)
WellFormedOrShort(a) ==
    \/ a = <<>>
    \/ /\ Len(a) >= 2
       /\ \/ a[1] \in FloatFlags /\ ParseF64(Trim(a[2])).ok
          \/ a[1] \in UintFlags /\ ParseUnsigned(Trim(a[2]), NoLimit).ok
          \/ /\ a[1] \in ColorFlags
             /\ LET pieces == SplitComma(a[2])
                IN  /\ Len(pieces) <= 3
                    /\ \A k \in 1..Len(pieces) :
                           ParseUnsigned(Trim(pieces[k]), U8Max).ok
          \/ a[1] = FlagO
       /\ WellFormedOrShort(SubSeq(a, 3, Len(a)))

\* Config::parse returns Ok for exactly those lists.
ParseAcceptsExactly ==
    pc \notin {"start", "parse"} =>
        (WellFormedOrShort(Tail(argv)) <=> parse_err = "")

WellFormedConfig ==
    /\ config.width > 0 /\ config.height > 0
    /\ config.iterations > 0
    /\ FGt(config.zoom, 0)

\* The pixels of a width x height image in scan order.
ScanOrder(width, height) ==
    [k \in 1..(width * height) |-> <<(k - 1) \div width, (k - 1) % width>>]

\* C6: on a well-formed Config every call of mandelbrot returns, with a
\* complete buffer; the escape loop runs at most `iterations` bodies for a
\* pixel, every pixel is visited exactly once, and no step aborts.
C6_RenderTotal ==
    /\ WellFormedConfig => <>(pc = "returned")
    /\ [](WellFormedConfig =>
            /\ pc # "panic"
            /\ nsteps <= config.iterations
            /\ i <= config.iterations
            /\ pc \in {"return", "returned"} =>
                   /\ visited = ScanOrder(config.width, config.height)
                   /\ Len(data) = 3 * config.width * config.height)

C6_Witness ==
    /\ WellFormedConfig
    /\ pc = "returned"
    /\ config.width = 2 /\ config.height = 2
    /\ nsteps = config.iterations /\ config.iterations = 3
    /\ Len(image.data) = 12

\* C7: a failed parse and a failed save end the process with a non-zero
\* status after a message; after a failed parse mandelbrot is never entered
\* and save_buffer never called; save_buffer is called only on the Image
\* of a finished render.
C7_MainFailures ==
    /\ parse_err # "" =>
          /\ pc \in {"parse_failed", "help", "exit"}
          /\ image = <<>> /\ data = <<>> /\ visited = <<>>
          /\ save_result = "none"
          /\ pc = "exit" => exit_code # SuccessStatus /\ Len(stderr) >= 1
    /\ save_result # "none" =>
          /\ parse_err = ""
          /\ pc = "exit"
          /\ image = MakeImage(data, config)
          /\ visited = ScanOrder(config.width, config.height)
    /\ save_result = "err" => exit_code # SuccessStatus /\ Len(stderr) >= 1
    /\ pc # "exit" => exit_code = 0 - 1

C7_Witness ==
    /\ pc = "exit"
    /\ save_result = "err"
    /\ exit_code = 1
    /\ Len(image.data) = 6

\* C8: a second call of mandelbrot on the same Config returns the same
\* data, width and height as the first, and no step changes the Config.
C8_Deterministic ==
    /\ []((pc = "returned" /\ run >= 2) => image = first)
    /\ [][config' = config]_vars

C8_Witness ==
    /\ pc = "returned" /\ run = 2
    /\ image = first
    /\ config.width = 2 /\ config.height = 2
    /\ \E a, b \in {0, 3, 6, 9} :
           SubSeq(image.data, a + 1, a + 3) # SubSeq(image.data, b + 1, b + 3)

\* The bytes of the pixel appended last.
LastPixel == SubSeq(data, Len(data) - 2, Len(data))

\* C9: the pixel is the inner blend when pixel_distance reports bounded and
\* the blend from outside_color toward it by the escape fraction otherwise;
\* an escape at index 0 gives outside_color itself, and outside_color has
\* no part in a bounded pixel.
C9_ColourRule ==
    (pc = "cols" /\ col > 0) =>
        LET inner == lerp(config.inside_color, config.second_color,
                          Fraction(result[2], config.mult))
        IN  /\ result[1] => LastPixel = inner
            /\ ~result[1] =>
                   /\ result[2] = FDiv(FromInt(i), FromInt(config.iterations))
                   /\ LastPixel = lerp(config.outside_color, inner, result[2])
            /\ (~result[1] /\ i = 0) => LastPixel = config.outside_color
            /\ result[1] =>
                   \A p \in Palettes :
                      mandel_colour([config EXCEPT !.outside_color = p[1]],
                                    TRUE, result[2]) = LastPixel

C9_Witness ==
    /\ pc = "cols" /\ col > 0
    /\ ~result[1] /\ i = 0
    /\ LastPixel = config.outside_color
    /\ config.outside_color # config.inside_color
    /\ config.mult = FromInt(25)

InUnit(a) == IsFinite(a) /\ a >= 0 /\ a <= FromInt(1)

Between(v, a, b) == (a <= v /\ v <= b) \/ (b <= v /\ v <= a)

\* C10 as stated: with iterations >= 1 both amounts handed to lerp lie in
\* [0, 1].
C10_AmountsInUnit ==
    (pc = "colour" /\ config.iterations >= 1) =>
        /\ InUnit(Fraction(result[2], config.mult))
        /\ ~result[1] => InUnit(result[2])

\* C10, amended: with iterations >= 1 the inner amount lies in [0, 1] or is
\* NaN, the outer amount is i/N with 0 <= i < N, in [0, 1]; every channel
\* of both blends lies between the channels blended, no i16 sum overflows
\* and no conversion to u8 wraps.
C10_AmountsSafe ==
    (pc = "colour" /\ config.iterations >= 1) =>
        LET f == Fraction(result[2], config.mult)
            inner == lerp(config.inside_color, config.second_color, f)
            pixel == mandel_colour(config, result[1], result[2])
        IN  /\ InUnit(f) \/ IsNaN(f)
            /\ ~result[1] =>
                   /\ i < config.iterations
                   /\ result[2] = FDiv(FromInt(i), FromInt(config.iterations))
                   /\ InUnit(result[2])
            /\ ~ColourPanics(config, result[1], result[2])
            /\ \A n \in 1..3 :
                  /\ Between(inner[n], config.inside_color[n],
                             config.second_color[n])
                  /\ inner[n] = config.inside_color[n]
                        + LerpTerm(config.inside_color[n],
                                   config.second_color[n], f)
                  /\ ~result[1] =>
                        /\ Between(pixel[n], config.outside_color[n], inner[n])
                        /\ pixel[n] = config.outside_color[n]
                              + LerpTerm(config.outside_color[n], inner[n],
                                         result[2])

C10_Witness ==
    /\ pc = "colour" /\ config.iterations >= 1
    /\ IsNaN(Fraction(result[2], config.mult))
    /\ ~result[1] /\ i >= 1

====
